---- MODULE Spec2Model ----
(***************************************************************************)
(* Model of the go-crud user service: HTTP handlers, UserService,          *)
(* userRepository and the users table created by RunMigrations.            *)
(*                                                                         *)
(* Strings are sequences of one-character strings, so that len, TrimSpace  *)
(* and Contains are computed as the Go code computes them.  An error is    *)
(* the chain of the segments of its message, outermost first; wrapping     *)
(* with fmt.Errorf("prefix: %w", err) prepends one segment, and            *)
(* err.Error() == "user not found" is equality with the one-segment chain. *)
(***************************************************************************)
EXTENDS Integers, Sequences, FiniteSets, TLC

\* ------------------------------------------------------------------ bounds
MaxReqs == 3        \* requests the server receives in one behaviour
MaxClock == 1       \* ticks of the database clock in one behaviour
MaxConns == 2       \* connections the server process serves at a time

\* ------------------------------------------------------------- strings
Rep(n, c) == [i \in 1..n |-> c]

IsSpace(c) == c \in {" ", "\t", "\n", "\r"}

RECURSIVE TrimLeft(_)
TrimLeft(s) == IF s # <<>> /\ IsSpace(Head(s)) THEN TrimLeft(Tail(s)) ELSE s

RECURSIVE TrimRight(_)
TrimRight(s) ==
    IF s # <<>> /\ IsSpace(s[Len(s)]) THEN TrimRight(SubSeq(s, 1, Len(s) - 1)) ELSE s

\* strings.TrimSpace
TrimSpace(s) == TrimRight(TrimLeft(s))

\* strings.Contains(s, c) for a one-character c
Contains(s, c) == \E i \in 1..Len(s) : s[i] = c

\* ------------------------------------------------------------- errors
NoErr == <<>>
ErrNotFound == <<"user not found">>
ErrInvalidID == <<"invalid user ID">>
ErrNameRequired == <<"name is required">>
ErrNameLength == <<"name must be between 2 and 100 characters">>
ErrEmailRequired == <<"email is required">>
ErrEmailFormat == <<"invalid email format">>
ErrAgeRange == <<"age must be between 1 and 150">>
ErrEmailExists == <<"user with email %s already exists">>

\* errors of the database driver
PqConnection == <<"pq: connection failure">>
PqUnique == <<"pq: duplicate key value violates unique constraint">>
PqCheck == <<"pq: new row violates check constraint">>
PqTooLong == <<"pq: value too long for type character varying(255)">>
PqOffset == <<"pq: OFFSET must not be negative">>
SqlErrNoRows == <<"sql: no rows in result set">>

\* fmt.Errorf(prefix + ": %w", err)
Wrap(prefix, err) == <<prefix>> \o err

\* ------------------------------------------------------------- models
NoUser == [id |-> 0, name |-> <<>>, email |-> <<>>, age |-> 0,
           created_at |-> 0, updated_at |-> 0]

NoBody == [name |-> <<>>, email |-> <<>>, age |-> 0]

\* ---------------------------------------------------------- validation
isValidEmail(email) == Contains(email, "@") /\ Contains(email, ".")

validateCreateUserRequest(req) ==
    IF TrimSpace(req.name) = <<>> THEN ErrNameRequired
    ELSE IF Len(req.name) < 2 \/ Len(req.name) > 100 THEN ErrNameLength
    ELSE IF TrimSpace(req.email) = <<>> THEN ErrEmailRequired
    ELSE IF ~isValidEmail(req.email) THEN ErrEmailFormat
    ELSE IF req.age <= 0 \/ req.age > 150 THEN ErrAgeRange
    ELSE NoErr

\* mutant: the update request is not validated
validateUpdateUserRequest_Off(req) == NoErr

validateUpdateUserRequest(req) ==
    IF req.name # <<>> /\ (Len(req.name) < 2 \/ Len(req.name) > 100) THEN ErrNameLength
    ELSE IF req.email # <<>> /\ ~isValidEmail(req.email) THEN ErrEmailFormat
    ELSE IF req.age # 0 /\ (req.age <= 0 \/ req.age > 150) THEN ErrAgeRange
    ELSE NoErr

\* ------------------------------------------------- machine integers (int)
\* A Go int is a 64-bit two's complement word, kept as Limbs limbs of
\* 16 bits (LimbBase values each), least significant first.
Limbs == 4
LimbBase == 65536

\* the word of a small natural number n < LimbBase * LimbBase
I64(n) == <<n % LimbBase, n \div LimbBase, 0, 0>>

MaxInt64 == <<LimbBase - 1, LimbBase - 1, LimbBase - 1, (LimbBase \div 2) - 1>>
MinInt64 == <<0, 0, 0, LimbBase \div 2>>
MinusOne == <<LimbBase - 1, LimbBase - 1, LimbBase - 1, LimbBase - 1>>

IsNeg(x) == x[Limbs] >= LimbBase \div 2
IsZero(x) == \A i \in 1..Limbs : x[i] = 0

\* x < 1
LessThanOne(x) == IsNeg(x) \/ IsZero(x)

\* x > 100
MoreThan100(x) == ~IsNeg(x) /\ ((\E i \in 2..Limbs : x[i] # 0) \/ x[1] > 100)

\* x - 1 for a word x, wrapping
RECURSIVE DecFrom(_, _)
DecFrom(x, i) ==
    IF i > Limbs THEN x
    ELSE IF x[i] > 0 THEN [x EXCEPT ![i] = x[i] - 1]
    ELSE DecFrom([x EXCEPT ![i] = LimbBase - 1], i + 1)

Dec(x) == DecFrom(x, 1)

\* the limbs of x * k for a non-negative word x and 0 <= k <= 100, with the
\* carry out of the top limb as one more limb: the exact product
RECURSIVE MulFrom(_, _, _, _)
MulFrom(x, k, i, carry) ==
    IF i > Limbs THEN <<carry>>
    ELSE <<(x[i] * k + carry) % LimbBase>>
         \o MulFrom(x, k, i + 1, (x[i] * k + carry) \div LimbBase)

ExactMul(x, k) == MulFrom(x, k, 1, 0)

\* x * k in int arithmetic: the low 64 bits of the product
Mul(x, k) == SubSeq(ExactMul(x, k), 1, Limbs)

\* a word that holds a small natural number, as that number
Small(x) == x[1] + LimbBase * x[2]
IsSmall(x) == x[3] = 0 /\ x[4] = 0 /\ x[2] < LimbBase \div 2

\* ---------------------------------------------------- UserService.GetUsers
\* page and limit after the normalisation of GetUsers, and the offset
NormPage(page) == IF LessThanOne(page) THEN I64(1) ELSE page

NormLimit(limit) == IF LessThanOne(limit) \/ MoreThan100(limit) THEN I64(10) ELSE limit

Offset(page, limit) == Mul(Dec(NormPage(page)), Small(NormLimit(limit)))

\* ------------------------------------------------------- the users table
\* mutant: the UNIQUE constraint on email is missing
UniqueEmail_Off(rows, row) == TRUE

\* email VARCHAR(255) UNIQUE: no other row holds the email of row
UniqueEmail(rows, row) == ~\E r \in rows : r.id # row.id /\ r.email = row.email

\* age INTEGER CHECK (age > 0 AND age < 150)
CheckAge(age) == age > 0 /\ age < 150

\* name VARCHAR(255), email VARCHAR(255)
FitsVarchar(s) == Len(s) <= 255

\* the error of the driver for writing row into a table holding rows
ConstraintErr(rows, row) ==
    IF ~FitsVarchar(row.name) \/ ~FitsVarchar(row.email) THEN PqTooLong
    ELSE IF ~CheckAge(row.age) THEN PqCheck
    ELSE IF ~UniqueEmail(rows, row) THEN PqUnique
    ELSE NoErr

\* mutant: the trigger is missing, updated_at is what the statement sets
UpdatedAtTrigger_Off(row, now) == row

\* BEFORE UPDATE trigger update_updated_at_column: NEW.updated_at = CURRENT_TIMESTAMP
UpdatedAtTrigger(row, now) == [row EXCEPT !.updated_at = now]

\* the row an INSERT builds: id from the SERIAL sequence, both timestamps
\* DEFAULT CURRENT_TIMESTAMP
InsertedRow(req, id, now) ==
    [id |-> id, name |-> req.name, email |-> req.email, age |-> req.age,
     created_at |-> now, updated_at |-> now]

\* ------------------------------------------------------- userRepository
\* each operator gives the [user, err] a repository method returns on the
\* table rows; fault says that the driver fails the statement
\* mutant: the repository reports a unique violation as the conflict error
Create_MapsConflict(rows, req, id, now, fault) ==
    LET row == InsertedRow(req, id, now)
        raw == IF fault THEN PqConnection ELSE ConstraintErr(rows, row)
    IN  IF raw = PqUnique THEN [user |-> NoUser, err |-> ErrEmailExists]
        ELSE IF raw # NoErr
        THEN [user |-> NoUser, err |-> Wrap("failed to create user", raw)]
        ELSE [user |-> row, err |-> NoErr]

Create(rows, req, id, now, fault) ==
    LET row == InsertedRow(req, id, now)
        raw == IF fault THEN PqConnection ELSE ConstraintErr(rows, row)
    IN  IF raw # NoErr
        THEN [user |-> NoUser, err |-> Wrap("failed to create user", raw)]
        ELSE [user |-> row, err |-> NoErr]

\* mutant: Scan fills Name and Email in the wrong order
GetByID_SwappedScan(rows, id, fault) ==
    IF fault THEN [user |-> NoUser, err |-> Wrap("failed to get user", PqConnection)]
    ELSE IF \E r \in rows : r.id = id
    THEN LET u == CHOOSE r \in rows : r.id = id
         IN  [user |-> [u EXCEPT !.name = u.email, !.email = u.name], err |-> NoErr]
    ELSE [user |-> NoUser, err |-> ErrNotFound]

GetByID(rows, id, fault) ==
    IF fault THEN [user |-> NoUser, err |-> Wrap("failed to get user", PqConnection)]
    ELSE IF \E r \in rows : r.id = id
    THEN [user |-> CHOOSE r \in rows : r.id = id, err |-> NoErr]
    ELSE [user |-> NoUser, err |-> ErrNotFound]

\* mutant: the query by email never finds a row
GetByEmail_Miss(rows, email, fault) ==
    IF fault THEN [user |-> NoUser, err |-> Wrap("failed to get user by email", PqConnection)]
    ELSE [user |-> NoUser, err |-> ErrNotFound]

GetByEmail(rows, email, fault) ==
    IF fault THEN [user |-> NoUser, err |-> Wrap("failed to get user by email", PqConnection)]
    ELSE IF \E r \in rows : r.email = email
    THEN [user |-> CHOOSE r \in rows : r.email = email, err |-> NoErr]
    ELSE [user |-> NoUser, err |-> ErrNotFound]

\* the orders ORDER BY created_at DESC may return rows in
Orderings(rows) ==
    LET n == Cardinality(rows)
    IN  {s \in [1..n -> rows] :
            /\ \A i, j \in 1..n : i # j => s[i] # s[j]
            /\ \A i, j \in 1..n : i < j => s[i].created_at >= s[j].created_at}

\* LIMIT limit OFFSET offset of the ordered rows; limit is a small number and
\* offset a word
PageOf(ordered, limit, offset) ==
    IF ~IsSmall(offset) \/ Small(offset) >= Len(ordered) THEN <<>>
    ELSE LET first == Small(offset) + 1
             last == IF first + limit - 1 < Len(ordered) THEN first + limit - 1
                     ELSE Len(ordered)
         IN  SubSeq(ordered, first, last)

GetAll(ordered, limit, offset, fault) ==
    IF fault THEN [users |-> <<>>, err |-> Wrap("failed to get users", PqConnection)]
    ELSE IF IsNeg(offset) THEN [users |-> <<>>, err |-> Wrap("failed to get users", PqOffset)]
    ELSE [users |-> PageOf(ordered, limit, offset), err |-> NoErr]

Count(rows, fault) ==
    IF fault THEN [count |-> 0, err |-> Wrap("failed to count users", PqConnection)]
    ELSE [count |-> Cardinality(rows), err |-> NoErr]

\* mutant: every field of req overwrites cur, present or not
Overlay_All(cur, req, appNow) ==
    [cur EXCEPT !.name = req.name, !.email = req.email, !.age = req.age,
                !.updated_at = appNow]

\* Update, lines 121-131: the fields of req that are present overlay cur
Overlay(cur, req, appNow) ==
    [cur EXCEPT !.name = IF req.name # <<>> THEN req.name ELSE @,
                !.email = IF req.email # <<>> THEN req.email ELSE @,
                !.age = IF req.age # 0 THEN req.age ELSE @,
                !.updated_at = appNow]

\* mutant: the statement is an upsert, which inserts the row when no row has
\* the id
UpdateStmt_Upsert(rows, cur, id, now, fault) ==
    IF fault THEN [user |-> NoUser, err |-> Wrap("failed to update user", PqConnection)]
    ELSE LET row == UpdatedAtTrigger([cur EXCEPT !.id = id], now)
             raw == ConstraintErr(rows, row)
         IN  IF raw # NoErr
             THEN [user |-> NoUser, err |-> Wrap("failed to update user", raw)]
             ELSE [user |-> row, err |-> NoErr]

\* Update, lines 133-161: the UPDATE ... WHERE id = $5 RETURNING statement
\* with the values of cur; created_at is not in its SET list
UpdateStmt(rows, cur, id, now, fault) ==
    IF fault THEN [user |-> NoUser, err |-> Wrap("failed to update user", PqConnection)]
    ELSE IF ~\E r \in rows : r.id = id
    THEN [user |-> NoUser, err |-> Wrap("failed to update user", SqlErrNoRows)]
    ELSE LET old == CHOOSE r \in rows : r.id = id
             row == UpdatedAtTrigger(
                        [old EXCEPT !.name = cur.name, !.email = cur.email,
                                    !.age = cur.age, !.updated_at = cur.updated_at], now)
             raw == ConstraintErr(rows, row)
         IN  IF raw # NoErr
             THEN [user |-> NoUser, err |-> Wrap("failed to update user", raw)]
             ELSE [user |-> row, err |-> NoErr]

\* mutant: RowsAffected is not looked at
DeleteStmt_NoRowsOk(rows, id, fault) ==
    IF fault THEN Wrap("failed to delete user", PqConnection)
    ELSE NoErr

\* Delete, lines 172-187: the DELETE statement and its RowsAffected
DeleteStmt(rows, id, fault) ==
    IF fault THEN Wrap("failed to delete user", PqConnection)
    ELSE IF ~\E r \in rows : r.id = id THEN ErrNotFound
    ELSE NoErr

\* ------------------------------------------------------------ UserHandler
ErrInvalidJSON == <<"Invalid JSON payload">>
ErrInvalidUserID == <<"Invalid user ID">>

CreateUserStatus(err) == IF err = NoErr THEN 201 ELSE 400

GetUserStatus(err) ==
    IF err = NoErr THEN 200 ELSE IF err = ErrNotFound THEN 404 ELSE 500

GetUsersStatus(err) == IF err = NoErr THEN 200 ELSE 500

UpdateUserStatus(err) ==
    IF err = NoErr THEN 200 ELSE IF err = ErrNotFound THEN 404 ELSE 400

DeleteUserStatus(err) ==
    IF err = NoErr THEN 200 ELSE IF err = ErrNotFound THEN 404 ELSE 500

\* --------------------------------------------------------- AuthMiddleware
\* An Authorization header is a sequence of atoms: a scheme word, the space
\* " " or the compact form of a token.  strings.Split(s, " ")
RECURSIVE SplitFrom(_, _, _)
SplitFrom(s, i, part) ==
    IF i > Len(s) THEN <<part>>
    ELSE IF s[i] = " " THEN <<part>> \o SplitFrom(s, i + 1, <<>>)
    ELSE SplitFrom(s, i + 1, Append(part, s[i]))

Split(s) == SplitFrom(s, 1, <<>>)

\* the tokens a client may send: the alg of the header, the key that signed
\* it, and the exp and nbf claims (0: the claim is absent)
Jwts ==
    [t1 |-> [alg |-> "HS256", key |-> "k1", exp |-> 0, nbf |-> 0],
     t2 |-> [alg |-> "HS256", key |-> "k2", exp |-> 0, nbf |-> 0],
     t3 |-> [alg |-> "HS512", key |-> "k1", exp |-> 1, nbf |-> 0],
     t4 |-> [alg |-> "RS256", key |-> "k1", exp |-> 0, nbf |-> 0],
     t5 |-> [alg |-> "none", key |-> "k1", exp |-> 0, nbf |-> 0],
     t6 |-> [alg |-> "HS384", key |-> "k1", exp |-> 2, nbf |-> 1],
     t7 |-> [alg |-> "XX000", key |-> "k1", exp |-> 0, nbf |-> 0]]

\* the signing methods jwt knows, and those of type *jwt.SigningMethodHMAC
SigningMethods == {"HS256", "HS384", "HS512", "RS256", "none"}
SigningMethodHMAC == {"HS256", "HS384", "HS512"}

\* jwt.Parse(tokenString, keyFunc) with the key function of AuthMiddleware:
\* "" when the token is valid, and the error otherwise
ParseToken(tokenString, secretKey, now) ==
    IF Len(tokenString) # 1 \/ tokenString[1] \notin DOMAIN Jwts
    THEN "token is malformed"
    ELSE LET token == Jwts[tokenString[1]]
         IN  IF token.alg \notin SigningMethods THEN "signing method is unavailable"
             ELSE IF token.alg \notin SigningMethodHMAC THEN "signature is invalid"
             ELSE IF token.key # secretKey THEN "signature is invalid"
             ELSE IF token.exp # 0 /\ ~(now < token.exp) THEN "token is expired"
             ELSE IF token.nbf # 0 /\ now < token.nbf THEN "token is not valid yet"
             ELSE ""

\* mutant: the scheme of the header is not compared with "Bearer"
AuthMiddleware_AnyScheme(authHeader, secretKey, now) ==
    LET tokenParts == Split(authHeader)
    IN  IF authHeader = <<>>
        THEN [next |-> FALSE, status |-> 401, message |-> "Authorization header required"]
        ELSE IF Len(tokenParts) # 2
        THEN [next |-> FALSE, status |-> 401,
              message |-> "Invalid authorization header format"]
        ELSE IF ParseToken(tokenParts[2], secretKey, now) # ""
        THEN [next |-> FALSE, status |-> 401, message |-> "Invalid or expired token"]
        ELSE [next |-> TRUE, status |-> 0, message |-> ""]

\* the handler AuthMiddleware(secretKey)(next) on a request with the header
\* authHeader: whether it calls next.ServeHTTP, and the response it writes
\* itself when it does not
AuthMiddleware(authHeader, secretKey, now) ==
    LET tokenParts == Split(authHeader)
    IN  IF authHeader = <<>>
        THEN [next |-> FALSE, status |-> 401, message |-> "Authorization header required"]
        ELSE IF Len(tokenParts) # 2 \/ tokenParts[1] # <<"Bearer">>
        THEN [next |-> FALSE, status |-> 401,
              message |-> "Invalid authorization header format"]
        ELSE IF ParseToken(tokenParts[2], secretKey, now) # ""
        THEN [next |-> FALSE, status |-> 401, message |-> "Invalid or expired token"]
        ELSE [next |-> TRUE, status |-> 0, message |-> ""]

\* -------------------------------------------------------------------- main
\* router.Use: the middleware main installs on the router, in order; main
\* calls Use on neither the api nor the userRoutes subrouter
RouterMiddleware == <<"LoggingMiddleware", "CORSMiddleware">>

\* the routes main registers under /api/v1
Routes ==
    {[method |-> "GET", path |-> "/health", handler |-> "HealthHandler.HealthCheck"],
     [method |-> "GET", path |-> "/users", handler |-> "UserHandler.GetUsers"],
     [method |-> "POST", path |-> "/users", handler |-> "UserHandler.CreateUser"],
     [method |-> "GET", path |-> "/users/{id}", handler |-> "UserHandler.GetUser"],
     [method |-> "PUT", path |-> "/users/{id}", handler |-> "UserHandler.UpdateUser"],
     [method |-> "DELETE", path |-> "/users/{id}", handler |-> "UserHandler.DeleteUser"]}

\* cfg.JWT.Secret of the deployment
JWTSecret == "k1"

\* LoggingMiddleware and CORSMiddleware hand every routed request to the next
\* handler; AuthMiddleware, were it in the chain, would stop a request it
\* does not accept
ThroughChain(chain, authHeader, now) ==
    IF \E i \in 1..Len(chain) : chain[i] = "AuthMiddleware"
                                /\ ~AuthMiddleware(authHeader, JWTSecret, now).next
    THEN 401 ELSE 0

\* the router on one request: the handler that serves it ("" when none
\* does) and the status written before any handler (0 when none is)
ServeHTTP(method, path, authHeader, now) ==
    IF ~\E rt \in Routes : rt.method = method /\ rt.path = path
    THEN [handler |-> "", status |-> IF \E rt \in Routes : rt.path = path
                                     THEN 405 ELSE 404]
    ELSE LET rt == CHOOSE x \in Routes : x.method = method /\ x.path = path
             stop == ThroughChain(RouterMiddleware, authHeader, now)
         IN  IF stop # 0 THEN [handler |-> "", status |-> stop]
             ELSE [handler |-> rt.handler, status |-> 0]

NoReq == [method |-> "", path |-> "", header |-> <<>>, handler |-> "", status |-> 0]

\* ----------------------------------------------------------- HealthHandler
NoHealth == [status |-> "", database |-> "", error |-> ""]

\* mutant: the overall status is never downgraded
HealthCheck_AlwaysHealthy(pingErr) ==
    [code |-> 200,
     body |-> [status |-> "healthy",
               database |-> IF pingErr # "" THEN "unhealthy" ELSE "healthy",
               error |-> pingErr]]

\* HealthHandler.HealthCheck: the status code and the statuses of the
\* response, for the error of db.Ping ("" when the ping succeeds)
HealthCheck(pingErr) ==
    LET dbStatus == IF pingErr # "" THEN "unhealthy" ELSE "healthy"
        dbError == pingErr
    IN  [code |-> IF dbStatus = "unhealthy" THEN 503 ELSE 200,
         body |-> [status |-> IF dbStatus = "unhealthy" THEN "unhealthy" ELSE "healthy",
                   database |-> dbStatus,
                   error |-> dbError]]

\* ------------------------------------------------------------------ state
VARIABLES
    users,      \* the rows of the users table
    nextId,     \* the next value of the SERIAL sequence users_id_seq
    clock,      \* CURRENT_TIMESTAMP of the database
    proc,       \* per request goroutine: the request, its position, its response,
                \* and whether the driver failed one of its statements
    created,    \* the user returned by the latest successful CreateUser and its
                \* request, while no later statement has written the table
    pg,         \* a GetUsers call on its own: arguments and what reaches GetAll
    sent,       \* the number of requests received so far
    deleted,    \* the ids whose DELETE statement has removed a row
    auth,       \* a request at AuthMiddleware on its own
    srv,        \* main: the phase of the process, the database handle and the
                \* requests the router has dispatched
    scan        \* a client that asks GetUsers for the pages 1, 2, 3, ... of a
                \* store that no request writes

vars == <<users, nextId, clock, proc, created, pg, sent, deleted, auth, srv, scan>>

Procs == {"p1", "p2"}

IdleProc ==
    [op |-> "none", pc |-> "idle", idOk |-> TRUE, id |-> 0, jsonOk |-> TRUE,
     body |-> NoBody, page |-> I64(0), limit |-> I64(0), cur |-> NoUser,
     list |-> <<>>, status |-> 0, err |-> NoErr, data |-> NoUser, total |-> 0,
     rpage |-> I64(0), rlimit |-> I64(0), faulted |-> FALSE,
     calls |-> <<>>, health |-> NoHealth]

NoCreated == [user |-> NoUser, req |-> NoBody]

NoCall == [pc |-> "args", page |-> I64(0), limit |-> I64(0),
           qlimit |-> I64(0), qoffset |-> I64(0)]

NoAuth == [pc |-> "idle", header |-> <<>>, secretKey |-> "", now |-> 0,
           next |-> FALSE, status |-> 0, message |-> ""]

\* the connections of the server process
Conns == 1..MaxConns

NoServer == [phase |-> "off", db |-> "open", reqs |-> [c \in Conns |-> NoReq]]

NoScan == [pc |-> "idle", limit |-> 0, page |-> 1, seen |-> <<>>, err |-> NoErr]

\* sendErrorResponse / sendSuccessResponse: the response of request r
Reply(r, status, err, data) ==
    [r EXCEPT !.pc = "done", !.status = status, !.err = err, !.data = data]

Init ==
    /\ users = {}
    /\ nextId = 1
    /\ clock = 0
    /\ proc = [p \in Procs |-> IdleProc]
    /\ created = NoCreated
    /\ pg = NoCall
    /\ sent = 0
    /\ deleted = {}
    /\ auth = NoAuth
    /\ srv = NoServer
    /\ scan = NoScan

\* the server accepts one more request
Accept ==
    /\ sent < MaxReqs
    /\ sent' = sent + 1

\* ------------------------------------------------------------ POST /users
\* mutant: the email pre-check runs before the fields are validated
CreateUserBegin_PreCheckFirst(p, jsonOk, body, fault) ==
    /\ proc[p].pc = "idle"
    /\ Accept
    /\ fault => jsonOk
    /\ LET verr == validateCreateUserRequest(body)
           r == [IdleProc EXCEPT !.op = "create", !.jsonOk = jsonOk,
                                 !.body = IF jsonOk THEN body ELSE NoBody,
                                 !.faulted = fault,
                                 !.calls = IF jsonOk THEN <<"GetByEmail">> ELSE <<>>]
           existingUser == GetByEmail(users, body.email, fault).user
       IN  proc' = [proc EXCEPT ![p] =
               IF ~jsonOk THEN Reply(r, 400, ErrInvalidJSON, NoUser)
               ELSE IF existingUser # NoUser
               THEN Reply(r, CreateUserStatus(ErrEmailExists), ErrEmailExists, NoUser)
               ELSE IF verr # NoErr THEN Reply(r, CreateUserStatus(verr), verr, NoUser)
               ELSE [r EXCEPT !.pc = "insert"]]
    /\ UNCHANGED <<users, nextId, clock, created, pg, deleted, auth, srv, scan>>

\* UserHandler.CreateUser and UserService.CreateUser up to the email pre-check
CreateUserBegin(p, jsonOk, body, fault) ==
    /\ proc[p].pc = "idle"
    /\ Accept
    /\ fault => jsonOk /\ validateCreateUserRequest(body) = NoErr
    /\ LET verr == validateCreateUserRequest(body)
           r == [IdleProc EXCEPT !.op = "create", !.jsonOk = jsonOk,
                                 !.body = IF jsonOk THEN body ELSE NoBody,
                                 !.faulted = fault,
                                 !.calls = IF jsonOk /\ verr = NoErr
                                           THEN <<"GetByEmail">> ELSE <<>>]
           existingUser == GetByEmail(users, body.email, fault).user
       IN  proc' = [proc EXCEPT ![p] =
               IF ~jsonOk THEN Reply(r, 400, ErrInvalidJSON, NoUser)
               ELSE IF verr # NoErr THEN Reply(r, CreateUserStatus(verr), verr, NoUser)
               ELSE IF existingUser # NoUser
               THEN Reply(r, CreateUserStatus(ErrEmailExists), ErrEmailExists, NoUser)
               ELSE [r EXCEPT !.pc = "insert"]]
    /\ UNCHANGED <<users, nextId, clock, created, pg, deleted, auth, srv, scan>>

\* UserService.CreateUser from userRepo.Create on, and the response
CreateUserInsert(p, fault) ==
    /\ proc[p].pc = "insert"
    /\ LET res == Create(users, proc[p].body, nextId, clock, fault)
           err == IF res.err # NoErr THEN Wrap("failed to create user", res.err) ELSE NoErr
       IN  /\ proc' = [proc EXCEPT ![p] =
                   Reply([@ EXCEPT !.faulted = @ \/ fault, !.calls = Append(@, "Create")],
                         CreateUserStatus(err), err, res.user)]
           /\ users' = IF res.err = NoErr THEN users \cup {res.user} ELSE users
           /\ nextId' = IF fault THEN nextId ELSE nextId + 1
           /\ created' = IF res.err = NoErr
                         THEN [user |-> res.user, req |-> proc[p].body]
                         ELSE created
    /\ UNCHANGED <<clock, pg, sent, deleted, auth, srv, scan>>

\* -------------------------------------------------------- GET /users/{id}
GetUser(p, idOk, id, fault) ==
    /\ proc[p].pc = "idle"
    /\ Accept
    /\ fault => idOk /\ id > 0
    /\ LET r == [IdleProc EXCEPT !.op = "get", !.idOk = idOk, !.id = IF idOk THEN id ELSE 0,
                                 !.faulted = fault,
                                 !.calls = IF idOk /\ id > 0 THEN <<"GetByID">> ELSE <<>>]
           res == IF id <= 0 THEN [user |-> NoUser, err |-> ErrInvalidID]
                  ELSE GetByID(users, id, fault)
       IN  proc' = [proc EXCEPT ![p] =
               IF ~idOk THEN Reply(r, 400, ErrInvalidUserID, NoUser)
               ELSE Reply(r, GetUserStatus(res.err), res.err, res.user)]
    /\ UNCHANGED <<users, nextId, clock, created, pg, deleted, auth, srv, scan>>

\* ------------------------------------------------------------- GET /users
\* UserHandler.GetUsers and UserService.GetUsers up to userRepo.GetAll
GetUsersBegin(p, page, limit, fault) ==
    /\ proc[p].pc = "idle"
    /\ Accept
    /\ \E ordered \in Orderings(users) :
         LET r == [IdleProc EXCEPT !.op = "list", !.page = page, !.limit = limit,
                                   !.faulted = fault, !.calls = <<"GetAll">>]
             res == GetAll(ordered, Small(NormLimit(limit)), Offset(page, limit), fault)
             err == IF res.err # NoErr THEN Wrap("failed to get users", res.err) ELSE NoErr
         IN  proc' = [proc EXCEPT ![p] =
                 IF err # NoErr THEN Reply(r, GetUsersStatus(err), err, NoUser)
                 ELSE [r EXCEPT !.pc = "count", !.list = res.users]]
    /\ UNCHANGED <<users, nextId, clock, created, pg, deleted, auth, srv, scan>>

\* mutant: the total is the length of the page instead of the row count
GetUsersCount_PageLen(p, fault) ==
    /\ proc[p].pc = "count"
    /\ proc' = [proc EXCEPT ![p] =
           [Reply([@ EXCEPT !.faulted = @ \/ fault, !.calls = Append(@, "Count")],
                  GetUsersStatus(NoErr), NoErr, NoUser)
               EXCEPT !.total = Len(proc[p].list), !.rpage = proc[p].page,
                      !.rlimit = proc[p].limit]]
    /\ UNCHANGED <<users, nextId, clock, created, pg, sent, deleted, auth, srv, scan>>

\* UserService.GetUsers from userRepo.Count on, and the response with its
\* pagination block
GetUsersCount(p, fault) ==
    /\ proc[p].pc = "count"
    /\ LET res == Count(users, fault)
           err == IF res.err # NoErr THEN Wrap("failed to count users", res.err) ELSE NoErr
       IN  proc' = [proc EXCEPT ![p] =
               IF err # NoErr
               THEN Reply([@ EXCEPT !.list = <<>>, !.faulted = TRUE,
                                    !.calls = Append(@, "Count")],
                          GetUsersStatus(err), err, NoUser)
               ELSE [Reply([@ EXCEPT !.calls = Append(@, "Count")],
                           GetUsersStatus(NoErr), NoErr, NoUser)
                        EXCEPT !.total = res.count, !.rpage = proc[p].page,
                               !.rlimit = proc[p].limit]]
    /\ UNCHANGED <<users, nextId, clock, created, pg, sent, deleted, auth, srv, scan>>

\* -------------------------------------------------------- PUT /users/{id}
\* UserHandler.UpdateUser and UserService.UpdateUser up to the email pre-check
UpdateUserBegin(p, idOk, id, jsonOk, body, fault) ==
    /\ proc[p].pc = "idle"
    /\ Accept
    /\ fault => /\ idOk /\ jsonOk /\ id > 0
                /\ validateUpdateUserRequest(body) = NoErr /\ body.email # <<>>
    /\ LET verr == validateUpdateUserRequest(body)
           r == [IdleProc EXCEPT !.op = "update", !.idOk = idOk,
                                 !.id = IF idOk THEN id ELSE 0,
                                 !.jsonOk = jsonOk,
                                 !.body = IF idOk /\ jsonOk THEN body ELSE NoBody,
                                 !.faulted = fault,
                                 !.calls = IF /\ idOk /\ jsonOk /\ id > 0
                                              /\ verr = NoErr /\ body.email # <<>>
                                           THEN <<"GetByEmail">> ELSE <<>>]
           existingUser == GetByEmail(users, body.email, fault).user
       IN  proc' = [proc EXCEPT ![p] =
               IF ~idOk THEN Reply(r, 400, ErrInvalidUserID, NoUser)
               ELSE IF ~jsonOk THEN Reply(r, 400, ErrInvalidJSON, NoUser)
               ELSE IF id <= 0 THEN Reply(r, UpdateUserStatus(ErrInvalidID), ErrInvalidID, NoUser)
               ELSE IF verr # NoErr THEN Reply(r, UpdateUserStatus(verr), verr, NoUser)
               ELSE IF body.email # <<>> /\ existingUser # NoUser /\ existingUser.id # id
               THEN Reply(r, UpdateUserStatus(ErrEmailExists), ErrEmailExists, NoUser)
               ELSE [r EXCEPT !.pc = "read"]]
    /\ UNCHANGED <<users, nextId, clock, created, pg, deleted, auth, srv, scan>>

\* userRepository.Update, lines 115-119: the read of the current row
UpdateUserRead(p, fault) ==
    /\ proc[p].pc = "read"
    /\ LET res == GetByID(users, proc[p].id, fault)
           err == IF res.err # NoErr THEN Wrap("failed to update user", res.err) ELSE NoErr
       IN  proc' = [proc EXCEPT ![p] =
               IF err # NoErr
               THEN Reply([@ EXCEPT !.faulted = @ \/ fault, !.calls = Append(@, "Update")],
                          UpdateUserStatus(err), err, NoUser)
               ELSE [@ EXCEPT !.pc = "write", !.cur = res.user,
                              !.calls = Append(@, "Update")]]
    /\ UNCHANGED <<users, nextId, clock, created, pg, sent, deleted, auth, srv, scan>>

\* mutant: the write overlays the row as it is stored now, as one statement
\* that sets only the fields present would
UpdateUserWrite_Rereads(p, appNow, fault) ==
    /\ proc[p].pc = "write"
    /\ LET stored == IF \E r \in users : r.id = proc[p].id
                     THEN CHOOSE r \in users : r.id = proc[p].id
                     ELSE proc[p].cur
           currentUser == Overlay(stored, proc[p].body, appNow)
           res == UpdateStmt(users, currentUser, proc[p].id, clock, fault)
           err == IF res.err # NoErr THEN Wrap("failed to update user", res.err) ELSE NoErr
       IN  /\ proc' = [proc EXCEPT ![p] =
                   Reply([@ EXCEPT !.faulted = @ \/ fault], UpdateUserStatus(err), err, res.user)]
           /\ users' = IF res.err = NoErr
                       THEN {r \in users : r.id # proc[p].id} \cup {res.user}
                       ELSE users
           /\ created' = IF res.err = NoErr THEN NoCreated ELSE created
    /\ UNCHANGED <<nextId, clock, pg, sent, deleted, auth, srv, scan>>

\* userRepository.Update from the overlay on, and the response; appNow is
\* time.Now() of the server
UpdateUserWrite(p, appNow, fault) ==
    /\ proc[p].pc = "write"
    /\ LET currentUser == Overlay(proc[p].cur, proc[p].body, appNow)
           res == UpdateStmt(users, currentUser, proc[p].id, clock, fault)
           err == IF res.err # NoErr THEN Wrap("failed to update user", res.err) ELSE NoErr
       IN  /\ proc' = [proc EXCEPT ![p] =
                   Reply([@ EXCEPT !.faulted = @ \/ fault], UpdateUserStatus(err), err, res.user)]
           /\ users' = IF res.err = NoErr
                       THEN {r \in users : r.id # proc[p].id} \cup {res.user}
                       ELSE users
           /\ created' = IF res.err = NoErr THEN NoCreated ELSE created
    /\ UNCHANGED <<nextId, clock, pg, sent, deleted, auth, srv, scan>>

\* ----------------------------------------------------- DELETE /users/{id}
\* UserHandler.DeleteUser, UserService.DeleteUser and the existence check of
\* userRepository.Delete
DeleteUserBegin(p, idOk, id, fault) ==
    /\ proc[p].pc = "idle"
    /\ Accept
    /\ fault => idOk /\ id > 0
    /\ LET r == [IdleProc EXCEPT !.op = "delete", !.idOk = idOk,
                                 !.id = IF idOk THEN id ELSE 0,
                                 !.faulted = fault,
                                 !.calls = IF idOk /\ id > 0 THEN <<"Delete">> ELSE <<>>]
           res == GetByID(users, id, fault)
           err == IF id <= 0 THEN ErrInvalidID
                  ELSE IF res.err # NoErr THEN Wrap("failed to delete user", res.err)
                  ELSE NoErr
       IN  proc' = [proc EXCEPT ![p] =
               IF ~idOk THEN Reply(r, 400, ErrInvalidUserID, NoUser)
               ELSE IF err # NoErr THEN Reply(r, DeleteUserStatus(err), err, NoUser)
               ELSE [r EXCEPT !.pc = "exec"]]
    /\ UNCHANGED <<users, nextId, clock, created, pg, deleted, auth, srv, scan>>

\* mutant: the DELETE statement has no WHERE clause
DeleteUserExec_AllRows(p, fault) ==
    /\ proc[p].pc = "exec"
    /\ LET raw == DeleteStmt(users, proc[p].id, fault)
           err == IF raw # NoErr THEN Wrap("failed to delete user", raw) ELSE NoErr
       IN  /\ proc' = [proc EXCEPT ![p] =
                   Reply([@ EXCEPT !.faulted = @ \/ fault], DeleteUserStatus(err), err, NoUser)]
           /\ users' = IF fault THEN users ELSE {}
           /\ created' = IF ~fault /\ users' # users THEN NoCreated ELSE created
           /\ deleted' = IF err = NoErr THEN deleted \cup {proc[p].id} ELSE deleted
    /\ UNCHANGED <<nextId, clock, pg, sent, auth, srv, scan>>

\* userRepository.Delete from the DELETE statement on, and the response
DeleteUserExec(p, fault) ==
    /\ proc[p].pc = "exec"
    /\ LET raw == DeleteStmt(users, proc[p].id, fault)
           err == IF raw # NoErr THEN Wrap("failed to delete user", raw) ELSE NoErr
       IN  /\ proc' = [proc EXCEPT ![p] =
                   Reply([@ EXCEPT !.faulted = @ \/ fault], DeleteUserStatus(err), err, NoUser)]
           /\ users' = IF fault THEN users ELSE {r \in users : r.id # proc[p].id}
           /\ created' = IF ~fault /\ users' # users THEN NoCreated ELSE created
           /\ deleted' = IF err = NoErr THEN deleted \cup {proc[p].id} ELSE deleted
    /\ UNCHANGED <<nextId, clock, pg, sent, auth, srv, scan>>

\* ------------------------------------------------------------ GET /health
\* HealthHandler.HealthCheck on the handle of the server; pingErr is the error
\* of db.Ping
GetHealth(p, pingErr) ==
    /\ proc[p].pc = "idle"
    /\ Accept
    /\ LET r == [IdleProc EXCEPT !.op = "health", !.faulted = (pingErr # "")]
           res == HealthCheck(pingErr)
       IN  proc' = [proc EXCEPT ![p] =
               [Reply(r, res.code, NoErr, NoUser) EXCEPT !.health = res.body]]
    /\ UNCHANGED <<users, nextId, clock, created, pg, deleted, auth, srv, scan>>

\* the response is written and the goroutine of the request ends
Respond(p) ==
    /\ proc[p].pc = "done"
    /\ proc' = [proc EXCEPT ![p] = IdleProc]
    /\ UNCHANGED <<users, nextId, clock, created, pg, sent, deleted, auth, srv, scan>>

\* time passes at the database
Tick ==
    /\ clock < MaxClock
    /\ clock' = clock + 1
    /\ UNCHANGED <<users, nextId, proc, created, pg, sent, deleted, auth, srv, scan>>

\* ----------------------------------------------------------------- inputs
NameJo == <<"J", "o">>
NameAnn == <<"A", "n", "n">>
NameBlank == <<" ", " ">>
NameX == <<"x">>
Name100 == Rep(100, "n")
Name101 == Rep(101, "n")

EmailA == <<"a", "@", "b", ".", "c">>
EmailB == <<"b", "@", "b", ".", "c">>
EmailNoAt == <<"a", "b", ".", "c">>
EmailNoDot == <<"a", "@", "b", "c">>
EmailBlank == <<" ">>
EmailLong == Rep(250, "e") \o <<"@", "b", ".", "c", "o", "m">>

Body(name, email, age) == [name |-> name, email |-> email, age |-> age]

\* requests of the concurrent specification
CoreCreateBodies == {Body(NameJo, e, 1) : e \in {EmailA, EmailB}}
CoreUpdateBodies == {Body(NameAnn, <<>>, 0), Body(<<>>, EmailB, 0)}
CoreIds == {1, 2}
CorePages == {I64(1)}
CoreLimits == {I64(2)}

\* requests of the sequential specification
SeqNames == {<<>>, NameX, NameJo, NameBlank, Name100, Name101}
SeqEmails == {<<>>, EmailA, EmailB, EmailNoAt, EmailNoDot, EmailBlank, EmailLong}
SeqAges == {-1, 0, 1, 149, 150, 151}
SeqCreateBodies ==
    {Body(n, EmailA, 1) : n \in SeqNames}
    \cup {Body(NameJo, e, 1) : e \in SeqEmails}
    \cup {Body(NameJo, EmailA, a) : a \in SeqAges}
    \cup {Body(Name100, EmailB, 149)}
SeqUpdateBodies ==
    {Body(n, <<>>, 0) : n \in SeqNames}
    \cup {Body(<<>>, e, 0) : e \in SeqEmails}
    \cup {Body(<<>>, <<>>, a) : a \in SeqAges}
    \cup {Body(Name100, EmailB, 0), Body(Name100, EmailB, 149), Body(NameX, EmailB, 149),
          Body(<<>>, EmailB, 150)}
SeqIds == {0, 1, 2, 3}
SeqPages == {I64(0), I64(1), I64(2), I64(3), MaxInt64}
SeqLimits == {I64(0), I64(1), I64(2), I64(101)}

AppTimes == 0..(MaxClock + 1)

\* errors of db.Ping; "" is a ping that succeeds
PingErrors == {"", "dial tcp: connection refused"}

\* arguments of a GetUsers call on its own
PageArgs ==
    {MinInt64, MinusOne, I64(0), I64(1), I64(2), I64(3), I64(11), I64(101),
     I64(65536), <<0, 0, 1, 0>>, <<0, 0, 0, 328>>, <<0, 0, 0, 16384>>,
     Dec(MaxInt64), MaxInt64}
LimitArgs ==
    {MinInt64, MinusOne, I64(0), I64(1), I64(2), I64(10), I64(50), I64(99),
     I64(100), I64(101), I64(65536), MaxInt64}

\* --------------------------------------------- the concurrent specification
Next ==
    \/ \E p \in Procs, jsonOk, fault \in BOOLEAN, body \in CoreCreateBodies :
         CreateUserBegin(p, jsonOk, body, fault)
    \/ \E p \in Procs, fault \in BOOLEAN : CreateUserInsert(p, fault)
    \/ \E p \in Procs, id \in CoreIds, fault \in BOOLEAN : GetUser(p, TRUE, id, fault)
    \/ \E p \in Procs, page \in CorePages, limit \in CoreLimits, fault \in BOOLEAN :
         GetUsersBegin(p, page, limit, fault)
    \/ \E p \in Procs, fault \in BOOLEAN : GetUsersCount(p, fault)
    \/ \E p \in Procs, id \in CoreIds, body \in CoreUpdateBodies, fault \in BOOLEAN :
         UpdateUserBegin(p, TRUE, id, TRUE, body, fault)
    \/ \E p \in Procs, fault \in BOOLEAN : UpdateUserRead(p, fault)
    \/ \E p \in Procs, appNow \in AppTimes, fault \in BOOLEAN :
         UpdateUserWrite(p, appNow, fault)
    \/ \E p \in Procs, id \in CoreIds, fault \in BOOLEAN : DeleteUserBegin(p, TRUE, id, fault)
    \/ \E p \in Procs, fault \in BOOLEAN : DeleteUserExec(p, fault)
    \/ \E p \in Procs, pingErr \in PingErrors : GetHealth(p, pingErr)
    \/ \E p \in Procs : Respond(p)
    \/ Tick

Spec == Init /\ [][Next]_vars

\* --------------------------------------------- the sequential specification
\* one client that sends its next request after the response to the last one
SeqNext ==
    \/ \E jsonOk, fault \in BOOLEAN, body \in SeqCreateBodies :
         CreateUserBegin("p1", jsonOk, body, fault)
    \/ \E fault \in BOOLEAN : CreateUserInsert("p1", fault)
    \/ \E idOk, fault \in BOOLEAN, id \in SeqIds : GetUser("p1", idOk, id, fault)
    \/ \E page \in SeqPages, limit \in SeqLimits, fault \in BOOLEAN :
         GetUsersBegin("p1", page, limit, fault)
    \/ \E fault \in BOOLEAN : GetUsersCount("p1", fault)
    \/ \E idOk, jsonOk, fault \in BOOLEAN, id \in SeqIds, body \in SeqUpdateBodies :
         UpdateUserBegin("p1", idOk, id, jsonOk, body, fault)
    \/ \E fault \in BOOLEAN : UpdateUserRead("p1", fault)
    \/ \E appNow \in AppTimes, fault \in BOOLEAN : UpdateUserWrite("p1", appNow, fault)
    \/ \E idOk, fault \in BOOLEAN, id \in SeqIds : DeleteUserBegin("p1", idOk, id, fault)
    \/ \E fault \in BOOLEAN : DeleteUserExec("p1", fault)
    \/ \E pingErr \in PingErrors : GetHealth("p1", pingErr)
    \/ Respond("p1")
    \/ Tick

SeqSpec == Init /\ [][SeqNext]_vars

\* ------------------------------------------------- GetUsers on its own
PageInit ==
    /\ users = {}
    /\ nextId = 1
    /\ clock = 0
    /\ proc = [p \in Procs |-> IdleProc]
    /\ created = NoCreated
    /\ pg \in {[NoCall EXCEPT !.page = a, !.limit = b] : a \in PageArgs, b \in LimitArgs}
    /\ sent = 0
    /\ deleted = {}
    /\ auth = NoAuth
    /\ srv = NoServer
    /\ scan = NoScan

\* UserService.GetUsers, lines 232-243: what it passes to userRepo.GetAll
GetUsersCall ==
    /\ pg.pc = "args"
    /\ pg' = [pg EXCEPT !.pc = "queried", !.qlimit = NormLimit(pg.limit),
                        !.qoffset = Offset(pg.page, pg.limit)]
    /\ UNCHANGED <<users, nextId, clock, proc, created, sent, deleted, auth, srv, scan>>

PageNext == GetUsersCall

PageSpec == PageInit /\ [][PageNext]_vars

\* -------------------------------------------- AuthMiddleware on its own
AuthHeaders ==
    {<<>>, <<"Bearer">>, <<"Bearer", " ">>, <<" ", "t1">>, <<"t1">>,
     <<"Bearer", " ", "Bearer">>, <<"Bearer", " ", " ", "t1">>,
     <<"Bearer", " ", "t1", " ">>, <<"Bearer", " ", "t1", " ", "t1">>,
     <<"Bearer", " ", "t1", "t1">>, <<"bearer", " ", "t1">>, <<"Basic", " ", "t1">>,
     <<"Bearer", "t1">>, <<"Bearer", " ", "t0">>}
    \cup {<<"Bearer", " ", t>> : t \in DOMAIN Jwts}

AuthSecrets == {"k1", "k2"}

AuthTimes == 0..2

AuthInit ==
    /\ users = {}
    /\ nextId = 1
    /\ clock = 0
    /\ proc = [p \in Procs |-> IdleProc]
    /\ created = NoCreated
    /\ pg = NoCall
    /\ sent = 0
    /\ deleted = {}
    /\ auth \in {[NoAuth EXCEPT !.pc = "request", !.header = h, !.secretKey = k, !.now = t] :
                    h \in AuthHeaders, k \in AuthSecrets, t \in AuthTimes}
    /\ srv = NoServer
    /\ scan = NoScan

\* the handler AuthMiddleware returns, on the request
AuthServe ==
    /\ auth.pc = "request"
    /\ LET res == AuthMiddleware(auth.header, auth.secretKey, auth.now)
       IN  auth' = [auth EXCEPT !.pc = "served", !.next = res.next,
                                !.status = res.status, !.message = res.message]
    /\ UNCHANGED <<users, nextId, clock, proc, created, pg, sent, deleted, srv, scan>>

AuthNext == AuthServe

AuthSpec == AuthInit /\ [][AuthNext]_vars

\* ------------------------------------------------------ the server process
MainMethods == {"GET", "POST", "PUT", "DELETE"}
MainPaths == {"/health", "/users", "/users/{id}", "/metrics"}
MainHeaders == {<<>>, <<"Bearer", " ", "t1">>, <<"Bearer", " ", "t2">>}

\* main has reached the wait for the signal: the database handle is open
\* and the server listens
MainInit ==
    /\ users = {}
    /\ nextId = 1
    /\ clock = 0
    /\ proc = [p \in Procs |-> IdleProc]
    /\ created = NoCreated
    /\ pg = NoCall
    /\ sent = 0
    /\ deleted = {}
    /\ auth = NoAuth
    /\ srv = [NoServer EXCEPT !.phase = "serving"]
    /\ scan = NoScan

\* the listener accepts a request on connection c and the router serves it
Dispatch(c, method, path, authHeader) ==
    /\ srv.phase = "serving"
    /\ srv.reqs[c] = NoReq
    /\ LET res == ServeHTTP(method, path, authHeader, clock)
       IN  srv' = [srv EXCEPT !.reqs[c] =
               [method |-> method, path |-> path, header |-> authHeader,
                handler |-> res.handler, status |-> res.status]]
    /\ UNCHANGED <<users, nextId, clock, proc, created, pg, sent, deleted, auth, scan>>

\* the request on connection c is answered and the connection is idle again
Complete(c) ==
    /\ srv.phase \in {"serving", "shutdown"}
    /\ srv.reqs[c] # NoReq
    /\ srv' = [srv EXCEPT !.reqs[c] = NoReq]
    /\ UNCHANGED <<users, nextId, clock, proc, created, pg, sent, deleted, auth, scan>>

\* main, lines 104-112: the signal arrives and srv.Shutdown closes the listener
Signal ==
    /\ srv.phase = "serving"
    /\ srv' = [srv EXCEPT !.phase = "shutdown"]
    /\ UNCHANGED <<users, nextId, clock, proc, created, pg, sent, deleted, auth, scan>>

\* srv.Shutdown returns nil once every connection is idle; main returns and
\* its deferred db.Close runs
ShutdownReturns ==
    /\ srv.phase = "shutdown"
    /\ \A c \in Conns : srv.reqs[c] = NoReq
    /\ srv' = [srv EXCEPT !.phase = "exited", !.db = "closed"]
    /\ UNCHANGED <<users, nextId, clock, proc, created, pg, sent, deleted, auth, scan>>

\* the deadline of ctx passes with a request still running: srv.Shutdown
\* returns the error of ctx and log.Fatalf exits the process, which runs no
\* deferred call
GraceExpires ==
    /\ srv.phase = "shutdown"
    /\ \E c \in Conns : srv.reqs[c] # NoReq
    /\ srv' = [srv EXCEPT !.phase = "exited"]
    /\ UNCHANGED <<users, nextId, clock, proc, created, pg, sent, deleted, auth, scan>>

MainNext ==
    \/ \E c \in Conns, method \in MainMethods, path \in MainPaths, h \in MainHeaders :
         Dispatch(c, method, path, h)
    \/ \E c \in Conns : Complete(c)
    \/ Signal
    \/ ShutdownReturns
    \/ GraceExpires

MainSpec == MainInit /\ [][MainNext]_vars

\* ------------------------------------------- paging through a fixed store
EmailC == <<"c", "@", "b", ".", "c">>

ScanEmails == <<EmailA, EmailB, EmailC>>

\* the stores of up to three users, inserted in the order of their ids at
\* times of the database that may coincide
ScanStores ==
    {{InsertedRow(Body(NameJo, ScanEmails[i], 1), i, t[i]) : i \in 1..n} :
        n \in 0..3, t \in {f \in [1..3 -> 0..MaxClock] : f[1] <= f[2] /\ f[2] <= f[3]}}

ScanLimits == {1, 2, 3}

ScanInit ==
    /\ users \in ScanStores
    /\ nextId = Cardinality(users) + 1
    /\ clock = MaxClock
    /\ proc = [p \in Procs |-> IdleProc]
    /\ created = NoCreated
    /\ pg = NoCall
    /\ sent = 0
    /\ deleted = {}
    /\ auth = NoAuth
    /\ srv = NoServer
    /\ scan \in {[NoScan EXCEPT !.pc = "paging", !.limit = l] : l \in ScanLimits}

\* UserService.GetUsers(scan.page, scan.limit) on the store; the client goes
\* on to the next page until a page comes back empty
ScanPage ==
    /\ scan.pc = "paging"
    /\ \E ordered \in Orderings(users) :
         LET page == I64(scan.page)
             limit == I64(scan.limit)
             res == GetAll(ordered, Small(NormLimit(limit)), Offset(page, limit), FALSE)
             cnt == Count(users, FALSE)
         IN  scan' = IF res.err # NoErr \/ cnt.err # NoErr
                     THEN [scan EXCEPT !.pc = "finished",
                                       !.err = IF res.err # NoErr THEN res.err ELSE cnt.err]
                     ELSE IF res.users = <<>> THEN [scan EXCEPT !.pc = "finished"]
                     ELSE [scan EXCEPT !.page = @ + 1, !.seen = @ \o res.users]
    /\ UNCHANGED <<users, nextId, clock, proc, created, pg, sent, deleted, auth, srv>>

ScanNext == ScanPage

ScanSpec == ScanInit /\ [][ScanNext]_vars

\* ------------------------------------------------------------------ claims
Done(p, op) == proc[p].pc = "done" /\ proc[p].op = op

\* the innermost segment of an error: the error of the driver, if any
Cause(err) == IF err = NoErr THEN "" ELSE err[Len(err)]

DriverErrors ==
    {PqConnection[1], PqUnique[1], PqCheck[1], PqTooLong[1], PqOffset[1], SqlErrNoRows[1]}

\* C1: in every reachable state, under every interleaving of concurrent
\* requests, no two stored users have the same email.
C1_UniqueEmails == \A r1, r2 \in users : r1.email = r2.email => r1 = r2

\* a write lost the race for an email that is now stored: the database
\* refused it with the unique violation
C1_Witness ==
    \E p \in Procs :
        /\ proc[p].pc = "done" /\ proc[p].op \in {"create", "update"}
        /\ Cause(proc[p].err) = PqUnique[1]
        /\ \E r \in users : r.email = proc[p].body.email

\* C2: a CreateUser that follows a successful CreateUser with the same email
\* (a request that passes field validation, all statements answered by the
\* database) fails with the "already exists" conflict, answered 400; no row
\* is inserted and the user stored by the first call is still stored
\* unchanged.
C2_SecondCreateConflicts ==
    [][\A p \in Procs :
         (/\ proc[p].pc = "idle" /\ proc'[p].op = "create"
          /\ proc'[p].jsonOk /\ ~proc'[p].faulted
          /\ validateCreateUserRequest(proc'[p].body) = NoErr
          /\ created.user # NoUser
          /\ proc'[p].body.email = created.req.email)
         => (/\ proc'[p].pc = "done"
             /\ proc'[p].err = ErrEmailExists
             /\ proc'[p].status = 400
             /\ users' = users
             /\ created.user \in users')]_vars

C2_Witness ==
    \E p \in Procs :
        /\ Done(p, "create") /\ proc[p].err = ErrEmailExists
        /\ created.user \in users
        /\ created.req.email = proc[p].body.email

\* C3: get, update and delete of a positive id that has no stored user are
\* answered 404, whatever the update body holds.
C3_MissingIdIs404 ==
    \A p \in Procs :
        (/\ proc[p].pc = "done" /\ proc[p].op \in {"get", "update", "delete"}
         /\ proc[p].idOk /\ proc[p].jsonOk /\ ~proc[p].faulted
         /\ proc[p].id > 0
         /\ proc[p].status # 200
         /\ ~\E u \in users : u.id = proc[p].id)
        => proc[p].status = 404

\* the documented field constraints of a create request; to the claim's
\* advantage the name is also not blank and the email fits its column
Documented(req) ==
    /\ Len(req.name) >= 2 /\ Len(req.name) <= 100
    /\ TrimSpace(req.name) # <<>>
    /\ Contains(req.email, "@") /\ Contains(req.email, ".")
    /\ Len(req.email) <= 255
    /\ req.age >= 1 /\ req.age <= 150

\* C4: a create request that satisfies the documented field constraints and
\* whose email is not stored is answered 201 with a user of positive id, the
\* requested name, email and age, and created_at = updated_at.
C4_ValidCreateSucceeds ==
    \A p \in Procs :
        (/\ Done(p, "create") /\ proc[p].jsonOk /\ ~proc[p].faulted
         /\ Documented(proc[p].body)
         /\ proc[p].err # ErrEmailExists)
        => (/\ proc[p].status = 201
            /\ proc[p].data.id > 0
            /\ proc[p].data.name = proc[p].body.name
            /\ proc[p].data.email = proc[p].body.email
            /\ proc[p].data.age = proc[p].body.age
            /\ proc[p].data.created_at = proc[p].data.updated_at)

\* C5: a GetUser of the id that the latest successful CreateUser returned,
\* with no write in between, returns exactly the user the create returned,
\* with the name, email and age of the create request.
C5_RoundTrip ==
    \A p \in Procs :
        (/\ Done(p, "get") /\ proc[p].idOk /\ ~proc[p].faulted
         /\ created.user # NoUser
         /\ proc[p].id = created.user.id)
        => (/\ proc[p].status = 200
            /\ proc[p].data = created.user
            /\ proc[p].data.name = created.req.name
            /\ proc[p].data.email = created.req.email
            /\ proc[p].data.age = created.req.age)

C5_Witness ==
    \E p \in Procs :
        /\ Done(p, "get") /\ proc[p].status = 200
        /\ created.user # NoUser
        /\ proc[p].data = created.user
        /\ created.user.created_at > 0

\* the fields of an update request that are present
Present(req) ==
    (IF req.name # <<>> THEN {"name"} ELSE {})
    \cup (IF req.email # <<>> THEN {"email"} ELSE {})
    \cup (IF req.age # 0 THEN {"age"} ELSE {})

\* C6: a sequential UpdateUser that succeeds with exactly one field present
\* sets that field to the requested value and updated_at to the time of the
\* update, keeps the other two fields, the id and created_at of the row, and
\* leaves every other row alone.
C6_OneFieldUpdate ==
    [][\A p \in Procs :
         (/\ proc[p].pc = "write" /\ proc'[p].pc = "done"
          /\ proc'[p].status = 200
          /\ Cardinality(Present(proc[p].body)) = 1)
         => LET old == CHOOSE u \in users : u.id = proc[p].id
                new == proc'[p].data
                req == proc[p].body
            IN  /\ \E u \in users : u.id = proc[p].id
                /\ new \in users'
                /\ users' \ {new} = users \ {old}
                /\ new.id = old.id
                /\ new.created_at = old.created_at
                /\ new.updated_at = clock
                /\ new.updated_at >= old.updated_at
                /\ new.name = IF "name" \in Present(req) THEN req.name ELSE old.name
                /\ new.email = IF "email" \in Present(req) THEN req.email ELSE old.email
                /\ new.age = IF "age" \in Present(req) THEN req.age ELSE old.age]_vars

C6_Witness ==
    \E p \in Procs :
        /\ Done(p, "update") /\ proc[p].status = 200
        /\ Present(proc[p].body) = {"age"}
        /\ proc[p].data \in users
        /\ proc[p].data.age = proc[p].body.age
        /\ proc[p].data.age # proc[p].cur.age
        /\ proc[p].data.name = proc[p].cur.name
        /\ proc[p].data.updated_at > proc[p].data.created_at

\* limbs of a + b for two limb sequences of one length, without the carry out
RECURSIVE AddFrom(_, _, _, _)
AddFrom(a, b, i, carry) ==
    IF i > Len(a) THEN <<>>
    ELSE <<(a[i] + b[i] + carry) % LimbBase>>
         \o AddFrom(a, b, i + 1, (a[i] + b[i] + carry) \div LimbBase)

\* the number x * k, for a non-negative word x, on one limb more than a word
RECURSIVE Times(_, _)
Times(x, k) ==
    IF k = 0 THEN [i \in 1..(Limbs + 1) |-> 0]
    ELSE LET half == Times(x, k \div 2)
             twice == AddFrom(half, half, 1, 0)
         IN  IF k % 2 = 0 THEN twice ELSE AddFrom(twice, x \o <<0>>, 1, 0)

\* C7: for every page and limit GetUsers queries the repository with
\* limit' = limit if 1 <= limit <= 100 and 10 otherwise, and with the offset
\* (page' - 1) * limit' where page' = max(page, 1).
C7_QueryArguments ==
    pg.pc = "queried" =>
        LET limitN == IF pg.limit \in {I64(k) : k \in 1..100} THEN pg.limit ELSE I64(10)
            pageN == IF IsNeg(pg.page) \/ pg.page = I64(0) THEN I64(1) ELSE pg.page
        IN  /\ pg.qlimit = limitN
            /\ ~IsNeg(pg.qoffset)
            /\ pg.qoffset \o <<0>> = Times(Dec(pageN), Small(limitN))

\* C8: with no concurrent write, the total that GetUsers returns is the
\* number of stored users, for every page and limit, also past the last page.
C8_TotalIsCount ==
    \A p \in Procs :
        (Done(p, "list") /\ proc[p].status = 200)
        => proc[p].total = Cardinality(users)

C8_Witness ==
    \E p \in Procs :
        /\ Done(p, "list") /\ proc[p].status = 200
        /\ proc[p].page = I64(3)
        /\ proc[p].list = <<>>
        /\ proc[p].total = 2

ValidationErrors ==
    {ErrInvalidID, ErrNameRequired, ErrNameLength, ErrEmailRequired, ErrEmailFormat,
     ErrAgeRange, ErrEmailExists}

\* C9: every validation or conflict failure of the service, the rejection of
\* a non-positive id included, is answered 400.
C9_ValidationIs400 ==
    \A p \in Procs :
        (proc[p].pc = "done" /\ proc[p].err \in ValidationErrors)
        => proc[p].status = 400

\* C10: a failure of the repository other than not-found, during create, get,
\* list, update or delete, is answered 500.
C10_PersistenceFailureIs500 ==
    \A p \in Procs :
        (proc[p].pc = "done" /\ Cause(proc[p].err) \in DriverErrors)
        => proc[p].status = 500

\* C11: once a delete of an id has succeeded, no stored row has that id again
\* and the id is never handed out again, under any interleaving of creates,
\* updates and deletes; so every get of the id made later is answered
\* not-found (404 unless the driver fails, and never a user), and no list
\* queried later holds a user with that id.
C11_DeletedStaysGone ==
    /\ [](\A u \in users : u.id \notin deleted)
    /\ [](\A x \in deleted : x < nextId)
    /\ [][\A p \in Procs :
            /\ (proc[p].pc = "idle" /\ proc'[p].op = "get" /\ proc'[p].id \in deleted)
               => (/\ proc'[p].status # 200
                   /\ proc'[p].data = NoUser
                   /\ ~proc'[p].faulted
                      => (proc'[p].status = 404 /\ proc'[p].err = ErrNotFound))
            /\ (proc[p].pc = "idle" /\ proc'[p].op = "list")
               => \A i \in 1..Len(proc'[p].list) : proc'[p].list[i].id \notin deleted]_vars

\* a request created the user, the other request deleted it and then asked
\* for it
C11_Witness ==
    \E p, q \in Procs :
        /\ Done(q, "create") /\ proc[q].status = 201
        /\ Done(p, "get") /\ proc[p].id = proc[q].data.id
        /\ proc[p].id \in deleted
        /\ proc[p].status = 404

\* C12: the health check answers 503 with overall status "unhealthy" exactly
\* when the ping of the database fails and 200 with "healthy" exactly when it
\* succeeds, and the overall status always equals the status of the database
\* sub-check.
C12_HealthFollowsPing ==
    \A p \in Procs :
        Done(p, "health")
        => (/\ proc[p].faulted
               => (proc[p].status = 503 /\ proc[p].health.status = "unhealthy")
            /\ ~proc[p].faulted
               => (proc[p].status = 200 /\ proc[p].health.status = "healthy")
            /\ proc[p].health.status = proc[p].health.database)

C12_Witness ==
    \E p \in Procs :
        /\ Done(p, "health") /\ proc[p].faulted
        /\ proc[p].status = 503
        /\ proc[p].health.error # ""

\* the header is exactly "Bearer <token>" and the token is signed with an
\* HMAC method under secretKey and is valid at the time now
ValidBearer(header, secretKey, now) ==
    /\ Len(header) = 3
    /\ header[1] = "Bearer" /\ header[2] = " "
    /\ header[3] \in DOMAIN Jwts
    /\ Jwts[header[3]].alg \in {"HS256", "HS384", "HS512"}
    /\ Jwts[header[3]].key = secretKey
    /\ (Jwts[header[3]].exp = 0 \/ now < Jwts[header[3]].exp)
    /\ (Jwts[header[3]].nbf = 0 \/ now >= Jwts[header[3]].nbf)

\* C13: the authentication gate calls the wrapped handler exactly when the
\* Authorization header is "Bearer <token>" with a token that validates under
\* the shared secret with an HMAC signing method; in every other case it
\* answers 401 and the wrapped handler is not called.
C13_GateCallsNextOnlyForValidBearer ==
    auth.pc = "served"
    => (/\ auth.next <=> ValidBearer(auth.header, auth.secretKey, auth.now)
        /\ ~auth.next => auth.status = 401)

\* a token signed with the right key by an HMAC method, refused because it
\* has expired
C13_Witness ==
    /\ auth.pc = "served"
    /\ auth.header = <<"Bearer", " ", "t3">>
    /\ auth.secretKey = Jwts["t3"].key
    /\ auth.now >= Jwts["t3"].exp
    /\ ~auth.next /\ auth.status = 401

\* C14: in the running server a request to a /users route without a valid
\* bearer token is answered 401 and reaches no user handler.
C14_UsersRoutesNeedToken ==
    \A c \in Conns :
        (/\ srv.reqs[c] # NoReq
         /\ \E rt \in Routes : /\ rt.method = srv.reqs[c].method
                                /\ rt.path = srv.reqs[c].path
                                /\ rt.path \in {"/users", "/users/{id}"}
         /\ ~ValidBearer(srv.reqs[c].header, JWTSecret, clock))
        => (srv.reqs[c].status = 401 /\ srv.reqs[c].handler = "")

\* C15: after the termination signal no new request is accepted; the database
\* handle is closed when the process has shut down, whether every request in
\* flight completed within the grace period or the grace period expired; and
\* it is not closed before.
C15_GatewayClosedOnShutdown ==
    /\ [](srv.phase = "exited" => srv.db = "closed")
    /\ [](srv.db = "closed" => srv.phase = "exited")
    /\ [][srv.phase \in {"shutdown", "exited"}
           => \A c \in Conns : srv.reqs[c] = NoReq => srv'.reqs[c] = NoReq]_vars

\* C16: a successful update writes back all three fields: each field absent
\* from its request is set to the value the update read earlier, whatever a
\* concurrent update has stored since; so two concurrent updates of one user
\* can both succeed while the change of one of them is lost.
C16_UpdateWritesBackWhatItRead ==
    [][\A p \in Procs :
         (proc[p].pc = "write" /\ proc'[p].pc = "done" /\ proc'[p].status = 200)
         => LET new == proc'[p].data
                read == proc[p].cur
                req == proc[p].body
            IN  /\ new \in users'
                /\ new.name = IF req.name # <<>> THEN req.name ELSE read.name
                /\ new.email = IF req.email # <<>> THEN req.email ELSE read.email
                /\ new.age = IF req.age # 0 THEN req.age ELSE read.age]_vars

\* both updates of one user were answered 200, one set only the name and the
\* other only the email, and the stored row has the new email but not the
\* new name
C16_Witness ==
    \E p, q \in Procs :
        /\ p # q
        /\ Done(p, "update") /\ proc[p].status = 200
        /\ Done(q, "update") /\ proc[q].status = 200
        /\ proc[p].id = proc[q].id
        /\ Present(proc[p].body) = {"name"}
        /\ Present(proc[q].body) = {"email"}
        /\ proc[p].data.name = proc[p].body.name
        /\ \E u \in users : /\ u.id = proc[p].id
                             /\ u.email = proc[q].body.email
                             /\ u.name # proc[p].body.name

\* the error of a create whose insert the UNIQUE constraint refused
GenericCreateError == Wrap("failed to create user", Wrap("failed to create user", PqUnique))

\* C17: of the createUser calls that have passed the email pre-check with
\* the same email, the one whose insert finds the email not stored succeeds,
\* and one whose insert finds it stored fails with the generic "failed to
\* create user" error, not the conflict error, and inserts nothing; either
\* way exactly one row has the email afterwards.
C17_RacingCreates ==
    [][\A p \in Procs :
         (proc[p].pc = "insert" /\ proc'[p].pc = "done" /\ ~proc'[p].faulted)
         => LET email == proc[p].body.email
            IN  /\ (\E u \in users : u.email = email)
                   => (/\ proc'[p].err = GenericCreateError
                       /\ proc'[p].err # ErrEmailExists
                       /\ proc'[p].status = 400
                       /\ users' = users)
                /\ (~\E u \in users : u.email = email)
                   => (/\ proc'[p].status = 201
                       /\ proc'[p].data \in users'
                       /\ proc'[p].data.email = email)
                /\ Cardinality({u \in users' : u.email = email}) = 1]_vars

\* both creates are answered: one with 201, the other with the generic error
C17_Witness ==
    \E p, q \in Procs :
        /\ Done(p, "create") /\ proc[p].status = 201
        /\ Done(q, "create") /\ proc[q].err = GenericCreateError
        /\ proc[q].body.email = proc[p].body.email
        /\ proc[q].calls = <<"GetByEmail", "Create">>
        /\ ~proc[p].faulted /\ ~proc[q].faulted
        /\ Cardinality({u \in users : u.email = proc[p].body.email}) = 1

\* C18: after any sequence of creates and updates every stored user has a
\* name of length 2 to 100, an email that contains "@" and ".", and an age
\* from 1 to 150.
C18_StoredUsersAreValid ==
    \A u \in users :
        /\ Len(u.name) >= 2 /\ Len(u.name) <= 100
        /\ Contains(u.email, "@") /\ Contains(u.email, ".")
        /\ u.age >= 1 /\ u.age <= 150

\* a user at the upper ends of name length and age, stored by an update
C18_Witness ==
    \E u \in users :
        /\ Len(u.name) = 100
        /\ u.age = 149
        /\ \E p \in Procs : Done(p, "update") /\ proc[p].status = 200 /\ proc[p].data = u

FieldErrors ==
    {ErrNameRequired, ErrNameLength, ErrEmailRequired, ErrEmailFormat, ErrAgeRange}

\* C19: a request that the service rejects for a field constraint or for a
\* non-positive id has called no repository method, a create rejected by the
\* email pre-check has called GetByEmail only, and either rejection leaves
\* the stored users unchanged.
C19_RejectedBeforeRepository ==
    [][\A p \in Procs :
         (proc[p].pc = "idle" /\ proc'[p].pc = "done")
         => (/\ (proc'[p].err \in FieldErrors \cup {ErrInvalidID})
                => (proc'[p].calls = <<>> /\ users' = users)
             /\ (proc'[p].op = "create" /\ proc'[p].err = ErrEmailExists)
                => (proc'[p].calls = <<"GetByEmail">> /\ users' = users))]_vars

\* a create with a stored email and an update with a one-character name,
\* both rejected
C19_Witness ==
    \E p \in Procs :
        /\ proc[p].pc = "done"
        /\ users # {}
        /\ \/ /\ proc[p].op = "create" /\ proc[p].err = ErrEmailExists
              /\ proc[p].calls = <<"GetByEmail">>
           \/ /\ proc[p].op = "update" /\ proc[p].err = ErrNameLength
              /\ proc[p].calls = <<>>

\* C20: an update with email E is rejected with the conflict error and
\* changes nothing when E is stored for another id, and succeeds when the
\* user exists and E is its own email or is not stored (a request that
\* satisfies the documented field constraints, with an email that fits its
\* column, every statement answered by the database).
C20_UpdateEmailUniqueness ==
    [][\A p \in Procs :
         LET req == proc'[p].body
             id == proc'[p].id
         IN  (/\ proc'[p].op = "update" /\ proc[p].pc # "done" /\ proc'[p].pc = "done"
              /\ proc'[p].idOk /\ proc'[p].jsonOk /\ ~proc'[p].faulted
              /\ id > 0
              /\ req.email # <<>> /\ isValidEmail(req.email) /\ Len(req.email) <= 255
              /\ req.name # <<>> => (Len(req.name) >= 2 /\ Len(req.name) <= 100)
              /\ req.age # 0 => (req.age >= 1 /\ req.age <= 150))
             => (/\ (\E u \in users : u.email = req.email /\ u.id # id)
                    => (/\ proc'[p].err = ErrEmailExists
                        /\ proc'[p].status = 400
                        /\ users' = users)
                 /\ (/\ \E u \in users : u.id = id
                     /\ ~\E u \in users : u.email = req.email /\ u.id # id)
                    => (/\ proc'[p].status = 200
                        /\ proc'[p].data.email = req.email
                        /\ proc'[p].data \in users'))]_vars

\* C21: a createUser or updateUser whose email pre-check query fails with a
\* persistence error fails with that error and goes on to no insert or
\* update.
C21_PreCheckFailureStops ==
    [][\A p \in Procs :
         (/\ proc[p].pc = "idle"
          /\ proc'[p].op \in {"create", "update"}
          /\ proc'[p].faulted)
         => (/\ proc'[p].pc = "done"
             /\ Cause(proc'[p].err) = PqConnection[1]
             /\ proc'[p].calls = <<"GetByEmail">>)]_vars

\* the error of a delete that found no row with the id
DeleteNotFound == Wrap("failed to delete user", ErrNotFound)

\* C22: of the deletes of one existing id that run concurrently, exactly one
\* succeeds: a delete whose statement finds the row removes that row and no
\* other; one that finds no row, at the existence check or at the DELETE
\* statement, reports "user not found" (under the context of the service) and
\* changes nothing; no two deletes of one id both succeed.
C22_ConcurrentDeletes ==
    /\ [](\A p, q \in Procs :
            (/\ p # q /\ Done(p, "delete") /\ Done(q, "delete")
             /\ proc[p].id = proc[q].id)
            => ~(proc[p].status = 200 /\ proc[q].status = 200))
    /\ [][\A p \in Procs :
            /\ (/\ proc[p].pc = "idle" /\ proc'[p].op = "delete" /\ proc'[p].idOk
                /\ proc'[p].id > 0 /\ ~proc'[p].faulted
                /\ ~\E u \in users : u.id = proc'[p].id)
               => (/\ proc'[p].pc = "done"
                   /\ proc'[p].err = DeleteNotFound
                   /\ users' = users)
            /\ (proc[p].pc = "exec" /\ proc'[p].pc = "done" /\ ~proc'[p].faulted)
               => IF \E u \in users : u.id = proc[p].id
                  THEN /\ proc'[p].err = NoErr /\ proc'[p].status = 200
                       /\ users' = {u \in users : u.id # proc[p].id}
                       /\ Cardinality(users') = Cardinality(users) - 1
                  ELSE /\ proc'[p].err = DeleteNotFound
                       /\ users' = users]_vars

\* both deletes of the id are answered, one with success and the other with
\* not-found, and the row is gone
C22_Witness ==
    \E p, q \in Procs :
        /\ Done(p, "delete") /\ proc[p].status = 200
        /\ Done(q, "delete") /\ proc[q].err = DeleteNotFound
        /\ proc[p].id = proc[q].id
        /\ proc[p].id \in deleted
        /\ ~\E u \in users : u.id = proc[p].id

\* C23: for every user, created_at never changes after insert, and
\* updated_at is never earlier than created_at and never decreases, whatever
\* updates run and whatever time the server puts into the statement.
C23_Timestamps ==
    /\ [](\A u \in users : u.updated_at >= u.created_at)
    /\ [][\A u \in users : \A v \in users' :
            u.id = v.id => (/\ v.created_at = u.created_at
                            /\ v.updated_at >= u.updated_at)]_vars

\* an update at a later time of the database has refreshed updated_at
C23_Witness ==
    \E p \in Procs :
        /\ Done(p, "update") /\ proc[p].status = 200
        /\ proc[p].data \in users
        /\ proc[p].data.created_at = proc[p].cur.created_at
        /\ proc[p].data.updated_at > proc[p].cur.updated_at

\* C24: an update whose row a concurrent request deleted between the read and
\* the write of the update reports "user not found", not a generic
\* persistence error.
C24_UpdateOfDeletedRowIsNotFound ==
    [][\A p \in Procs :
         (/\ proc[p].pc = "write" /\ proc'[p].pc = "done" /\ ~proc'[p].faulted
          /\ ~\E u \in users : u.id = proc[p].id)
         => (/\ Cause(proc'[p].err) = ErrNotFound[1]
             /\ Cause(proc'[p].err) \notin DriverErrors)]_vars

\* C26: in every answer of GetUsers the page holds at most total users, also
\* when creates and deletes run concurrently with the request.
C26_PageWithinTotal ==
    \A p \in Procs :
        (Done(p, "list") /\ proc[p].status = 200)
        => Len(proc[p].list) <= proc[p].total

\* C25: with a fixed store and a fixed limit, the pages 1, 2, 3, ... up to the
\* first empty page hold every stored user exactly once, in descending order
\* of created_at, also when users share a created_at; the page past the last
\* one is empty and not an error.
C25_PagesCoverStoreOnce ==
    scan.pc = "finished"
    => (/\ scan.err = NoErr
        /\ Len(scan.seen) = Cardinality(users)
        /\ \A u \in users : \E i \in 1..Len(scan.seen) : scan.seen[i] = u
        /\ \A i, j \in 1..Len(scan.seen) :
              i < j => scan.seen[i].created_at >= scan.seen[j].created_at)

\* C27: for every page that a machine integer holds and every limit, the
\* offset GetUsers passes to the repository is not negative, and it is the
\* product (page' - 1) * limit' of the normalised arguments without
\* wrap-around.
C27_OffsetNeverWraps ==
    pg.pc = "queried"
    => (/\ ~IsNeg(pg.qoffset)
        /\ ExactMul(Dec(NormPage(pg.page)), Small(pg.qlimit))[Limbs + 1] = 0
        /\ pg.qoffset \o <<0>> = ExactMul(Dec(NormPage(pg.page)), Small(pg.qlimit)))

\* C28: the pagination block of a GET /users answer holds the page and the
\* limit the query used: 1 and 10 when the parameters are absent (parsed as
\* 0), and the normalised values when they are out of range.
C28_PaginationReportsUsedValues ==
    \A p \in Procs :
        (Done(p, "list") /\ proc[p].status = 200)
        => (/\ proc[p].rpage = (IF LessThanOne(proc[p].page) THEN I64(1) ELSE proc[p].page)
            /\ proc[p].rlimit = (IF LessThanOne(proc[p].limit) \/ MoreThan100(proc[p].limit)
                                 THEN I64(10) ELSE proc[p].limit))

\* C29: the name, email and age that a successful updateUser has stored for
\* the fields present in its request would each be accepted by createUser;
\* in particular no name that is empty after trimming is stored by an update.
C29_UpdateAcceptsOnlyWhatCreateAccepts ==
    \A p \in Procs :
        (Done(p, "update") /\ proc[p].status = 200)
        => LET req == proc[p].body
               asCreate == Body(IF req.name # <<>> THEN req.name ELSE NameJo,
                                IF req.email # <<>> THEN req.email ELSE EmailA,
                                IF req.age # 0 THEN req.age ELSE 1)
           IN  /\ validateCreateUserRequest(asCreate) = NoErr
               /\ TrimSpace(proc[p].data.name) # <<>>

\* C30: a successful update or delete of an id leaves every stored user with
\* another id as it was, and a successful delete lowers the number of stored
\* users by exactly one.
C30_OtherRowsUntouched ==
    [][\A p \in Procs :
         (/\ proc[p].pc \in {"write", "exec"}
          /\ proc'[p].pc = "done" /\ proc'[p].status = 200)
         => (/\ {u \in users' : u.id # proc[p].id} = {u \in users : u.id # proc[p].id}
             /\ proc[p].op = "delete"
                => (/\ Cardinality(users') = Cardinality(users) - 1
                    /\ ~\E u \in users' : u.id = proc[p].id)
             /\ proc[p].op = "update"
                => (/\ Cardinality(users') = Cardinality(users)
                    /\ \E u \in users' : u.id = proc[p].id))]_vars

\* a delete succeeded and another user is still stored
C30_Witness ==
    \E p \in Procs :
        /\ Done(p, "delete") /\ proc[p].status = 200
        /\ proc[p].id \in deleted
        /\ \E u \in users : u.id # proc[p].id

====
